---- MODULE Spec2Model ----
(***************************************************************************)
(* Envelope-budgeting bot (src/bot.py): the persisted ledger store, the    *)
(* command and message handlers that post to it, and the interactive       *)
(* category-selection views with their pending-transaction map.            *)
(*                                                                         *)
(* Abstractions.  Amounts are integers (the code uses floats; no handler   *)
(* rounds).  The 'date' and 'message_id' fields of a transaction and the   *)
(* 'date' field of an income record are left out: no handler reads them    *)
(* when it changes the store.  Text is a sequence of one-character         *)
(* strings, so that lower(), upper(), strip() and "in" are computed.       *)
(* A quick-amount message is identified with the number of the prompt      *)
(* (view) it creates.  Bucket keys are non-empty tokens.                   *)
(***************************************************************************)
EXTENDS Integers, Sequences, FiniteSets, Bags, TLC

VARIABLES data, pending_transactions, views, tasks

vars == <<data, pending_transactions, views, tasks>>

-----------------------------------------------------------------------------
(* Bounds of the model *)

\* longest transaction log explored
MaxTx == 2
\* largest allocated value explored
MaxAlloc == 1
\* longest income list explored
MaxIncome == 1
\* number of category-selection prompts created
MaxViews == 2
\* number of button callbacks suspended at their await at one time
MaxSuspended == 2
\* number of handlers in flight at one time
MaxTasks == 2

\* bucket keys (emotes); a key is one character of text
Keys == {"k1", "k2"}
\* users of the channel
Users == {"u1", "u2"}
\* targets given to !setbucket
Targets == {0, 5}
\* amounts given to !adjust
Amounts == {-1, 1}

-----------------------------------------------------------------------------
(* Text: a string is a sequence of characters, a message is a sequence of  *)
(* words (its split() on single blanks).                                   *)

UpperCase == <<"A", "B", "C", "D", "E", "F", "G", "H", "I", "J", "K", "L", "M",
               "N", "O", "P", "Q", "R", "S", "T", "U", "V", "W", "X", "Y", "Z">>
LowerCase == <<"a", "b", "c", "d", "e", "f", "g", "h", "i", "j", "k", "l", "m",
               "n", "o", "p", "q", "r", "s", "t", "u", "v", "w", "x", "y", "z">>

LowerOf == [c \in {UpperCase[i] : i \in 1..26} |->
              LowerCase[CHOOSE i \in 1..26 : UpperCase[i] = c]]
UpperOf == [c \in {LowerCase[i] : i \in 1..26} |->
              UpperCase[CHOOSE i \in 1..26 : LowerCase[i] = c]]

\* str.lower()
lower(s) == [i \in 1..Len(s) |-> IF s[i] \in DOMAIN LowerOf THEN LowerOf[s[i]] ELSE s[i]]

\* str.upper()
upper(s) == [i \in 1..Len(s) |-> IF s[i] \in DOMAIN UpperOf THEN UpperOf[s[i]] ELSE s[i]]

\* str.endswith(suffix)
endswith(s, suffix) ==
    /\ Len(suffix) <= Len(s)
    /\ SubSeq(s, Len(s) - Len(suffix) + 1, Len(s)) = suffix

\* "sub in s" on strings
contains(s, sub) ==
    \E i \in 0..(Len(s) - Len(sub)) : SubSeq(s, i + 1, i + Len(sub)) = sub

\* str.strip()
strip(s) ==
    LET solid == {i \in 1..Len(s) : s[i] # " "}
    IN IF solid = {} THEN <<>>
       ELSE SubSeq(s, CHOOSE i \in solid : \A j \in solid : i <= j,
                      CHOOSE i \in solid : \A j \in solid : j <= i)

\* the text of words, one blank between two
RECURSIVE Join(_)
Join(words) ==
    IF words = <<>> THEN <<>>
    ELSE IF Len(words) = 1 THEN words[1]
    ELSE words[1] \o <<" ">> \o Join(Tail(words))

DigitValue == [c \in {"0", "1", "2"} |-> CASE c = "0" -> 0 [] c = "1" -> 1 [] c = "2" -> 2]

\* float(word) on the numerals of the model, an optional sign and one digit:
\* ok is FALSE where float() raises ValueError
float(word) ==
    LET signed == word # <<>> /\ word[1] \in {"+", "-"}
        digits == IF signed THEN Tail(word) ELSE word
        ok == Len(digits) = 1 /\ digits[1] \in DOMAIN DigitValue
    IN [ok |-> ok,
        value |-> IF ~ok THEN 0
                  ELSE IF word[1] = "-" THEN -DigitValue[digits[1]]
                  ELSE DigitValue[digits[1]]]

Gas == <<"G", "a", "s">>
CreditCard == <<"C", "r", "e", "d", "i", "t", "C", "a", "r", "d">>
Card == <<"C", "a", "r", "d">>
\* bucket names given to !setbucket
Names == {Gas, CreditCard, Card}

creditcard == <<"c", "r", "e", "d", "i", "t", "c", "a", "r", "d">>
CCSuffix == <<" ", "C", "C">>
QuickTransaction == <<"Q", "u", "i", "c", "k", " ", "t", "r", "a", "n", "s", "a", "c", "t", "i", "o", "n">>
NoDescription == <<"N", "o", " ", "d", "e", "s", "c", "r", "i", "p", "t", "i", "o", "n">>
FromOpen == <<" ", "(", "f", "r", "o", "m", " ">>
FromClose == <<")">>
IncomeDescription == <<"I", "n", "c", "o", "m", "e">>

\* words typed by users
Minus1 == <<"-", "1">>
One == <<"1">>
Plus1 == <<"+", "1">>
PlusMinus1 == <<"+", "-", "1">>
gas == <<"g", "a", "s">>
card == <<"c", "a", "r", "d">>
milk == <<"m">>

\* messages that are one bare signed number
AmountMessages == {<<Minus1>>, <<One>>}
\* messages "+<amount> <category>"
AllocationMessages == {<<Plus1, gas>>, <<Plus1, card>>, <<Plus1, milk>>, <<PlusMinus1, gas>>}
\* messages "<emote> <amount> <description>", some marked as card purchases
TransactionMessages ==
    {<<(<<k>>), Minus1, milk>> : k \in Keys}
      \cup {<<(<<k>>), amount, milk, <<"C", "C">> >> : k \in Keys, amount \in {Minus1, One}}
      \cup {<<(<<"k1">>), Minus1, milk, <<"c", "c">> >>}

-----------------------------------------------------------------------------
(* The ledger store: the contents of DATA_FILE.  buckets is the dict in    *)
(* insertion order; has_income says whether the 'income' key is present.   *)

NoBucket == "None"

EmptyData == [buckets |-> <<>>, transactions |-> <<>>, income |-> <<>>,
              has_income |-> FALSE]

\* load_data(): the file's contents, or the empty aggregate when there is no file
\* (the file is modelled as holding the empty aggregate from the start)
load_data == data

BucketKeys(d) == {d.buckets[i].emote : i \in DOMAIN d.buckets}

HasBucket(d, emote) == emote \in BucketKeys(d)

BucketIndex(d, emote) == CHOOSE i \in DOMAIN d.buckets : d.buckets[i].emote = emote

\* data['buckets'][emote]
GetBucket(d, emote) == d.buckets[BucketIndex(d, emote)]

\* data['buckets'][emote] = bucket: overwrite in place, or insert at the end
PutBucket(d, emote, bucket) ==
    IF HasBucket(d, emote)
    THEN [d EXCEPT !.buckets[BucketIndex(d, emote)] = bucket]
    ELSE [d EXCEPT !.buckets = Append(@, bucket)]

RECURSIVE SumSeq(_)
SumSeq(s) == IF s = <<>> THEN 0 ELSE Head(s) + SumSeq(Tail(s))

Abs(x) == IF x < 0 THEN -x ELSE x

get_total_income(d) ==
    IF ~d.has_income THEN 0
    ELSE SumSeq([i \in DOMAIN d.income |-> d.income[i].amount])

get_total_allocated(d) ==
    SumSeq([i \in DOMAIN d.buckets |-> d.buckets[i].allocated])

get_unallocated(d) == get_total_income(d) - get_total_allocated(d)

get_spent(d, emote) ==
    SumSeq([i \in DOMAIN d.transactions |->
              IF d.transactions[i].bucket = emote /\ d.transactions[i].amount < 0
              THEN Abs(d.transactions[i].amount) ELSE 0])

\* a variant of get_available that never reports less than nothing
get_available_Clamped(d, emote) ==
    IF ~HasBucket(d, emote) THEN 0
    ELSE LET left == GetBucket(d, emote).allocated - get_spent(d, emote)
         IN IF left < 0 THEN 0 ELSE left

get_available(d, emote) ==
    LET allocated == IF HasBucket(d, emote) THEN GetBucket(d, emote).allocated ELSE 0
    IN allocated - get_spent(d, emote)

\* on_message: the signed balance of a bucket, deposits less withdrawals
balance(d, emote) ==
    SumSeq([i \in DOMAIN d.transactions |->
              IF d.transactions[i].bucket = emote
              THEN d.transactions[i].amount ELSE 0])

\* the first bucket, in insertion order, that satisfies Match; NoBucket if none
FirstBucket(d, Match(_)) ==
    LET hits == {i \in DOMAIN d.buckets : Match(d.buckets[i])}
    IN IF hits = {} THEN NoBucket
       ELSE d.buckets[CHOOSE i \in hits : \A j \in hits : i <= j].emote

\* a variant of find_bucket_by_name with the partial pass only
find_bucket_by_name_PartialOnly(d, name) ==
    LET name_lower == lower(name)
        Partial(bucket) == contains(lower(bucket.name), name_lower)
    IN FirstBucket(d, Partial)

find_bucket_by_name(d, name) ==
    LET name_lower == lower(name)
        Exact(bucket) == lower(bucket.name) = name_lower
        Partial(bucket) == contains(lower(bucket.name), name_lower)
    IN IF FirstBucket(d, Exact) # NoBucket THEN FirstBucket(d, Exact)
       ELSE FirstBucket(d, Partial)

-----------------------------------------------------------------------------
(* The handlers' effect on the store: data as loaded -> [data as saved,    *)
(* reply sent].  A handler that does not save returns the data unchanged.  *)

\* a variant of SetBucket that starts every bucket it writes at nothing
SetBucket_Resets(d, emote, name, amount) ==
    [data |-> PutBucket(d, emote, [name |-> name, target |-> amount,
                                   emote |-> emote, allocated |-> 0]),
     reply |-> "bucket_set"]

\* !setbucket <emote> <name> <amount>
SetBucket(d, emote, name, amount) ==
    LET existing_allocated == IF HasBucket(d, emote)
                              THEN GetBucket(d, emote).allocated ELSE 0
    IN [data |-> PutBucket(d, emote, [name |-> name, target |-> amount,
                                       emote |-> emote,
                                       allocated |-> existing_allocated]),
        reply |-> "bucket_set"]

\* a variant of RecordIncome that keeps the latest record only
RecordIncome_Replaces(d, amount, description, person) ==
    [data |-> [d EXCEPT !.income = <<[amount |-> amount, description |-> description,
                                      person |-> person, type |-> "income"]>>,
                        !.has_income = TRUE],
     reply |-> "income_recorded"]

\* !income <amount> [description]
RecordIncome(d, amount, description, person) ==
    LET income_transaction == [amount |-> amount, description |-> description,
                               person |-> person, type |-> "income"]
    IN [data |-> [d EXCEPT !.income = Append(@, income_transaction),
                           !.has_income = TRUE],
        reply |-> "income_recorded"]

\* a variant of Undo that removes the oldest entry
Undo_PopFirst(d) ==
    IF d.transactions # <<>>
    THEN [data |-> [d EXCEPT !.transactions = Tail(@)], reply |-> "undone"]
    ELSE [data |-> d, reply |-> "nothing_to_undo"]

\* a variant of Undo that, with nothing in the log, takes back the allocations
Undo_RevertsAllocation(d) ==
    IF d.transactions # <<>>
    THEN [data |-> [d EXCEPT !.transactions = SubSeq(@, 1, Len(@) - 1)],
          reply |-> "undone"]
    ELSE [data |-> [d EXCEPT !.buckets =
                      [i \in DOMAIN @ |-> [@[i] EXCEPT !.allocated = 0]]],
          reply |-> "undone"]

\* !undo
Undo(d) ==
    IF d.transactions # <<>>
    THEN [data |-> [d EXCEPT !.transactions = SubSeq(@, 1, Len(@) - 1)],
          reply |-> "undone"]
    ELSE [data |-> d, reply |-> "nothing_to_undo"]

\* a variant of AdjustAllocation that also refuses to empty a bucket
AdjustAllocation_StrictFloor(d, emote, amount) ==
    IF ~HasBucket(d, emote) THEN [data |-> d, reply |-> "unknown_bucket"]
    ELSE LET bucket == GetBucket(d, emote)
             new_allocated == bucket.allocated + amount
         IN IF new_allocated <= 0
            THEN [data |-> d, reply |-> "negative_allocation"]
            ELSE [data |-> PutBucket(d, emote,
                                     [bucket EXCEPT !.allocated = new_allocated]),
                  reply |-> "adjusted"]

\* a variant of AdjustAllocation without the floor at zero
AdjustAllocation_NoFloor(d, emote, amount) ==
    IF ~HasBucket(d, emote) THEN [data |-> d, reply |-> "unknown_bucket"]
    ELSE LET bucket == GetBucket(d, emote)
         IN [data |-> PutBucket(d, emote, [bucket EXCEPT !.allocated = @ + amount]),
             reply |-> "adjusted"]

\* !adjust <emote> <amount>
AdjustAllocation(d, emote, amount) ==
    IF ~HasBucket(d, emote) THEN [data |-> d, reply |-> "unknown_bucket"]
    ELSE LET bucket == GetBucket(d, emote)
             new_allocated == bucket.allocated + amount
         IN IF new_allocated < 0
            THEN [data |-> d, reply |-> "negative_allocation"]
            ELSE [data |-> PutBucket(d, emote,
                                     [bucket EXCEPT !.allocated = new_allocated]),
                  reply |-> "adjusted"]

\* a variant of Clear that resets the buckets and the log only
Clear_KeepsIncome ==
    [data |-> [data EXCEPT !.buckets = <<>>, !.transactions = <<>>],
     reply |-> "cleared"]

\* !clear
Clear == [data |-> [buckets |-> <<>>, transactions |-> <<>>, income |-> <<>>,
                    has_income |-> FALSE],
          reply |-> "cleared"]

\* on_message, "+<amount> <category>"
Allocate(d, amount, category_name) ==
    LET emote == find_bucket_by_name(d, category_name)
    IN IF emote = NoBucket THEN [data |-> d, reply |-> "not_found"]
       ELSE LET bucket == GetBucket(d, emote)
            IN [data |-> PutBucket(d, emote,
                                   [bucket EXCEPT !.allocated = @ + amount]),
                reply |-> "allocated"]

\* description.upper().endswith(' CC')
IsCCPurchase(description) == endswith(upper(description), CCSuffix)

\* the description as stored: description[:-3].strip() for a CC purchase
StoredDescription(description) ==
    IF IsCCPurchase(description)
    THEN strip(SubSeq(description, 1, Len(description) - 3))
    ELSE description

\* a variant of FindCreditCard that compares the name as written
FindCreditCard_CaseSensitive(d) ==
    LET IsCard(bucket) == bucket.name = creditcard
    IN FirstBucket(d, IsCard)

\* the first bucket whose name.lower() == 'creditcard'
FindCreditCard(d) ==
    LET IsCard(bucket) == lower(bucket.name) = creditcard
    IN FirstBucket(d, IsCard)

\* a variant of MirrorTarget that mirrors deposits too
MirrorTarget_AnyAmount(d, is_cc_purchase, amount) ==
    IF is_cc_purchase THEN FindCreditCard(d) ELSE NoBucket

\* the bucket charged as well: the credit card, for a CC purchase that withdraws
MirrorTarget(d, is_cc_purchase, amount) ==
    IF is_cc_purchase /\ amount < 0 THEN FindCreditCard(d) ELSE NoBucket

\* a variant of Spend that takes a withdrawal out of the bucket's allocation
Spend_Deducts(d, emote, amount, text) ==
    IF ~HasBucket(d, emote) THEN [data |-> d, reply |-> "unknown_bucket"]
    ELSE LET bucket == GetBucket(d, emote)
             taken == PutBucket(d, emote, [bucket EXCEPT !.allocated = @ + amount])
         IN [data |-> [taken EXCEPT !.transactions =
                         Append(@, [bucket |-> emote, amount |-> amount,
                                    description |-> StoredDescription(text),
                                    cc_purchase |-> IsCCPurchase(text)])],
             reply |-> "posted"]

\* a variant of Spend that posts on a key no bucket has
Spend_AnyBucket(d, emote, amount, text) ==
    [data |-> [d EXCEPT !.transactions =
                 Append(@, [bucket |-> emote, amount |-> amount,
                            description |-> StoredDescription(text),
                            cc_purchase |-> IsCCPurchase(text)])],
     reply |-> "posted"]

\* on_message, "<emote> <amount> <description>"
Spend(d, emote, amount, text) ==
    IF ~HasBucket(d, emote) THEN [data |-> d, reply |-> "unknown_bucket"]
    ELSE LET bucket == GetBucket(d, emote)
             is_cc_purchase == IsCCPurchase(text)
             description == StoredDescription(text)
             transaction == [bucket |-> emote, amount |-> amount,
                             description |-> description,
                             cc_purchase |-> is_cc_purchase]
             cc_emote == MirrorTarget(d, is_cc_purchase, amount)
             cc_transaction == [bucket |-> cc_emote, amount |-> amount,
                                description |-> description \o FromOpen
                                                \o bucket.name \o FromClose,
                                cc_purchase |-> FALSE]
         IN [data |-> [d EXCEPT !.transactions =
                         IF cc_emote # NoBucket
                         THEN Append(Append(@, transaction), cc_transaction)
                         ELSE Append(@, transaction)],
             reply |-> "posted"]

\* a variant of ResolvePending that posts without looking the bucket up
ResolvePending_NoLookup(d, emote, amount) ==
    IF amount > 0 /\ ~HasBucket(d, emote) THEN [data |-> d, reply |-> "fault"]
    ELSE IF amount > 0
    THEN [data |-> PutBucket(d, emote,
                             [GetBucket(d, emote) EXCEPT !.allocated = @ + amount]),
          reply |-> "quick_allocated"]
    ELSE [data |-> [d EXCEPT !.transactions =
                      Append(@, [bucket |-> emote, amount |-> amount,
                                 description |-> QuickTransaction,
                                 cc_purchase |-> FALSE])],
          reply |-> "quick_spent"]

\* CategorySelectView callback of the button for emote, pressed by the reporter,
\* up to its await: the view holds the amount
ResolvePending(d, emote, amount) ==
    IF ~HasBucket(d, emote) THEN [data |-> d, reply |-> "fault"]
    ELSE LET bucket == GetBucket(d, emote)
         IN IF amount > 0
            THEN [data |-> PutBucket(d, emote,
                                     [bucket EXCEPT !.allocated = @ + amount]),
                  reply |-> "quick_allocated"]
            ELSE [data |-> [d EXCEPT !.transactions =
                              Append(@, [bucket |-> emote, amount |-> amount,
                                         description |-> QuickTransaction,
                                         cc_purchase |-> FALSE])],
                  reply |-> "quick_spent"]

\* the part of the store the model explores
Bounded(d) ==
    /\ Len(d.transactions) <= MaxTx
    /\ Len(d.income) <= MaxIncome
    /\ \A i \in DOMAIN d.buckets : d.buckets[i].allocated <= MaxAlloc

-----------------------------------------------------------------------------
(* Prompts and the pending-transaction map *)

NoPending == [amount |-> 0, message |-> 0]

\* a variant of QuickAmount that prompts whatever the buckets
QuickAmount_NoCheck(d, pending, vs, author, amount) ==
    [pending_transactions |->
       [pending EXCEPT ![author] = [amount |-> amount, message |-> Len(vs) + 1]],
     views |-> Append(vs,
       [user_id |-> author, amount |-> amount,
        original_message |-> Len(vs) + 1,
        buttons |-> [i \in DOMAIN d.buckets |-> d.buckets[i].emote],
        state |-> "shown", awaiting |-> 0]),
     reply |-> "select_category"]

\* on_message, a bare signed number: [pending_transactions, views, reply]
QuickAmount(d, pending, vs, author, amount) ==
    IF d.buckets = <<>>
    THEN [pending_transactions |-> pending, views |-> vs, reply |-> "no_buckets"]
    ELSE [pending_transactions |->
            [pending EXCEPT ![author] = [amount |-> amount, message |-> Len(vs) + 1]],
          views |-> Append(vs,
            [user_id |-> author, amount |-> amount,
             original_message |-> Len(vs) + 1,
             buttons |-> [i \in DOMAIN d.buckets |-> d.buckets[i].emote],
             state |-> "shown", awaiting |-> 0]),
          reply |-> "select_category"]

\* the bucket key a word names: an emote is one character
EmoteOf(word) == IF Len(word) = 1 THEN word[1] ELSE NoBucket

\* on_message: what the text of a message is taken for
ParseMessage(content) ==
    IF Len(content) = 1 /\ float(content[1]).ok
    THEN [kind |-> "amount", amount |-> float(content[1]).value]
    ELSE IF /\ content # <<>> /\ content[1] # <<>> /\ content[1][1] = "+"
            /\ Len(content) >= 2 /\ float(content[1]).ok
    THEN [kind |-> "allocation", amount |-> float(content[1]).value,
          category_name |-> Join(Tail(content))]
    ELSE IF Len(content) < 2 \/ ~float(content[2]).ok
    THEN [kind |-> "ignored"]
    ELSE [kind |-> "transaction", emote |-> EmoteOf(content[1]),
          amount |-> float(content[2]).value,
          description |-> IF Len(content) > 2
                          THEN Join(SubSeq(content, 3, Len(content)))
                          ELSE NoDescription]

\* on_message: [data, pending_transactions, views, reply]
OnMessage(d, pending, vs, author, content) ==
    LET m == ParseMessage(content)
        Store(r) == [data |-> r.data, pending_transactions |-> pending,
                     views |-> vs, reply |-> r.reply]
    IN CASE m.kind = "amount" ->
              [data |-> d] @@ QuickAmount(d, pending, vs, author, m.amount)
         [] m.kind = "allocation" -> Store(Allocate(d, m.amount, m.category_name))
         [] m.kind = "transaction" -> Store(Spend(d, m.emote, m.amount, m.description))
         [] OTHER -> Store([data |-> d, reply |-> "ignored"])

\* the callbacks that await interaction.response.edit_message
Suspended(vs) == SumSeq([v \in DOMAIN vs |-> vs[v].awaiting])

\* the button for emote on prompt v is on screen
Shown(vs, v, emote) ==
    /\ vs[v].state = "shown"
    /\ \E i \in DOMAIN vs[v].buttons : vs[v].buttons[i] = emote

\* a variant of Callback that lets anybody resolve a prompt
Callback_AnyUser(d, vs, v, emote, user) ==
    LET r == ResolvePending(d, emote, vs[v].amount)
    IN [data |-> r.data,
        views |-> IF r.reply = "fault" THEN vs
                  ELSE [vs EXCEPT ![v].awaiting = @ + 1],
        reply |-> r.reply]

\* the callback of the button for emote on prompt v, pressed by user, up to its
\* await: [data, views, reply]
Callback(d, vs, v, emote, user) ==
    IF user # vs[v].user_id
    THEN [data |-> d, views |-> vs, reply |-> "not_yours"]
    ELSE LET r == ResolvePending(d, emote, vs[v].amount)
         IN [data |-> r.data,
             views |-> IF r.reply = "fault" THEN vs
                       ELSE [vs EXCEPT ![v].awaiting = @ + 1],
             reply |-> r.reply]

\* the callback after its await: the reporter's pending entry is deleted
Cleanup(pending, vs, v) == [pending EXCEPT ![vs[v].user_id] = NoPending]

\* the callback run from the press to its end with no other handler in between:
\* [data, pending_transactions, views, reply].  A callback that raises, or that
\* returns at the authorization check, does not reach the cleanup.
CallbackToEnd(d, pending, vs, v, emote, user) ==
    LET r == Callback(d, vs, v, emote, user)
        done == r.reply \in {"quick_allocated", "quick_spent"}
    IN [data |-> r.data,
        pending_transactions |-> IF done THEN Cleanup(pending, vs, v) ELSE pending,
        views |-> IF done THEN [vs EXCEPT ![v].state = "closed"] ELSE vs,
        reply |-> r.reply]

-----------------------------------------------------------------------------
(* Handlers as coroutines.  The event loop runs one handler at a time, from *)
(* where it stands to its next await; a handler in flight is a task: the    *)
(* event it handles, its place in its code and the data it has loaded.      *)

\* an event: a command, a message or a press of the button for emote on prompt v
Event(kind, emote, amount, v, user) ==
    [kind |-> kind, emote |-> emote, amount |-> amount, v |-> v, user |-> user]

Idle == [op |-> Event("none", NoBucket, 0, 0, "u1"), pc |-> 0, local |-> EmptyData]

\* a variant of Program that awaits between the load and the save
Program_AwaitsBeforeSave(op) ==
    IF op.kind = "callback"
    THEN <<"load", "await", "mutate", "save", "await", "cleanup">>
    ELSE <<"load", "await", "mutate", "save", "await">>

\* the store accesses and the awaits of a handler, in the order of its code;
\* only the callback of a button goes on after its last await
Program(op) ==
    CASE op.kind = "clear" -> <<"mutate", "save", "await">>
      [] op.kind = "callback" -> <<"load", "mutate", "save", "await", "cleanup">>
      [] OTHER -> <<"load", "mutate", "save", "await">>

\* what the handler of an event makes of the data it has loaded: [data, reply]
Run(op, d, vs) ==
    CASE op.kind = "setbucket" -> SetBucket(d, op.emote, Gas, op.amount)
      [] op.kind = "adjust" -> AdjustAllocation(d, op.emote, op.amount)
      [] op.kind = "undo" -> Undo(d)
      [] op.kind = "clear" -> Clear
      [] op.kind = "allocation" -> Allocate(d, op.amount, gas)
      [] op.kind = "transaction" -> Spend(d, op.emote, op.amount, milk)
      [] op.kind = "callback" ->
           [data |-> Callback(d, vs, op.v, op.emote, op.user).data,
            reply |-> Callback(d, vs, op.v, op.emote, op.user).reply]

\* the replies of the paths that reach save_data; the others reply and return
Saves(reply) ==
    reply \in {"bucket_set", "income_recorded", "undone", "adjusted", "cleared",
               "allocated", "posted", "quick_allocated", "quick_spent"}

\* a task run from where it stands to its next await, or to its end:
\* c = [task, data, pending_transactions, views].  What a handler has loaded
\* it only words its reply with once it has saved: the task forgets it.
RECURSIVE Exec(_)
Exec(c) ==
    LET t == c.task
        next == [t EXCEPT !.pc = @ + 1]
        last == t.pc = Len(Program(t.op))
        statement == Program(t.op)[t.pc]
    IN IF t.pc > Len(Program(t.op)) THEN [c EXCEPT !.task = Idle]
       ELSE CASE statement = "load" ->
                   Exec([c EXCEPT !.task = [next EXCEPT !.local = c.data]])
              [] statement = "mutate" ->
                   LET r == Run(t.op, t.local, c.views)
                   IN IF Saves(r.reply)
                      THEN Exec([c EXCEPT !.task = [next EXCEPT !.local = r.data]])
                      ELSE [c EXCEPT !.task = Idle]
              [] statement = "save" ->
                   Exec([c EXCEPT !.task = [next EXCEPT !.local = EmptyData],
                                  !.data = t.local])
              [] statement = "await" ->
                   [c EXCEPT !.task = IF last THEN Idle ELSE next]
              [] statement = "cleanup" ->
                   Exec([c EXCEPT !.task = next,
                                  !.pending_transactions = Cleanup(@, c.views, t.op.v),
                                  !.views = [@ EXCEPT ![t.op.v].state = "closed"]])

-----------------------------------------------------------------------------
(* State and steps *)

Init ==
    /\ data = EmptyData
    /\ pending_transactions = [u \in Users |-> NoPending]
    /\ views = <<>>
    /\ tasks = EmptyBag

\* a handler that only touches the store: load, transform, save, send the reply
Handle(result) ==
    \E r \in {result} :
        /\ Bounded(r.data)
        /\ data' = r.data
        /\ UNCHANGED <<pending_transactions, views, tasks>>

set_bucket(emote, name, amount) == Handle(SetBucket(load_data, emote, name, amount))

add_income(author, amount) ==
    Handle(RecordIncome(load_data, amount, IncomeDescription, author))

undo_last == Handle(Undo(load_data))

adjust_allocation(emote, amount) == Handle(AdjustAllocation(load_data, emote, amount))

clear_data == Handle(Clear)

on_message(author, content) ==
    \E r \in {OnMessage(load_data, pending_transactions, views, author, content)} :
        /\ Bounded(r.data)
        /\ Len(r.views) <= MaxViews
        /\ data' = r.data
        /\ pending_transactions' = r.pending_transactions
        /\ views' = r.views
        /\ UNCHANGED tasks

callback(v, emote, user) ==
    /\ Shown(views, v, emote)
    /\ \E r \in {Callback(load_data, views, v, emote, user)} :
        /\ Bounded(r.data)
        /\ Suspended(r.views) <= MaxSuspended
        /\ data' = r.data
        /\ views' = r.views
        /\ UNCHANGED <<pending_transactions, tasks>>

\* the callback after interaction.response.edit_message(view=None) returns:
\* the prompt has lost its buttons
callback_resume(v) ==
    /\ views[v].awaiting > 0
    /\ views' = [views EXCEPT ![v].awaiting = @ - 1, ![v].state = "closed"]
    /\ pending_transactions' = Cleanup(pending_transactions, views, v)
    /\ UNCHANGED <<data, tasks>>

\* the view's timeout=300 passes with no interaction
view_timeout(v) ==
    /\ views[v].state = "shown"
    /\ views[v].awaiting = 0
    /\ views' = [views EXCEPT ![v].state = "expired"]
    /\ UNCHANGED <<data, pending_transactions, tasks>>

\* a press on a prompt whose view has timed out: no callback is dispatched
press_expired(v) ==
    /\ views[v].state = "expired"
    /\ UNCHANGED <<data, pending_transactions, views, tasks>>

\* The ledger handlers alone: nobody sends a bare amount, so no prompt exists.
NextLedger ==
    \/ \E name \in {Gas, CreditCard} : set_bucket("k1", name, 5)
    \/ set_bucket("k2", Card, 5)
    \/ add_income("u1", 1)
    \/ undo_last
    \/ \E emote \in Keys, amount \in Amounts : adjust_allocation(emote, amount)
    \/ clear_data
    \/ \E content \in AllocationMessages : on_message("u1", content)
    \/ \E content \in TransactionMessages : on_message("u1", content)

SpecLedger == Init /\ [][NextLedger]_vars

\* The whole bot: one bucket, one reporter of bare amounts, and the ledger
\* handlers' inputs drawn from smaller sets.  Income, which a prompt reads
\* only to word its reply, is recorded in the ledger specification.
Next ==
    \/ set_bucket("k1", Gas, 5)
    \/ undo_last
    \/ \E emote \in Keys, amount \in Amounts : adjust_allocation(emote, amount)
    \/ clear_data
    \/ \E content \in AmountMessages : on_message("u1", content)
    \/ on_message("u1", <<Plus1, gas>>)
    \/ \E emote \in Keys : on_message("u1", <<(<<emote>>), Minus1, milk>>)
    \/ \E v \in DOMAIN views, emote \in Keys, user \in Users : callback(v, emote, user)
    \/ \E v \in DOMAIN views : callback_resume(v)
    \/ \E v \in DOMAIN views : view_timeout(v)
    \/ \E v \in DOMAIN views : press_expired(v)

Spec == Init /\ [][Next]_vars

\* an event arrives: its handler is in flight (the tasks in flight are kept
\* as a bag: the order of their arrival decides nothing, and two handlers of
\* the same event at the same place are two tasks)
dispatch(op) ==
    /\ op.kind = "callback" => op.v \in DOMAIN views /\ Shown(views, op.v, op.emote)
    /\ BagCardinality(tasks) < MaxTasks
    /\ tasks' = tasks (+) SetToBag({[op |-> op, pc |-> 1, local |-> EmptyData]})
    /\ UNCHANGED <<data, pending_transactions, views>>

\* the event loop resumes a task
resume(t) ==
    \E c \in {Exec([task |-> t, data |-> data,
                     pending_transactions |-> pending_transactions,
                     views |-> views])} :
        /\ Bounded(c.data)
        /\ data' = c.data
        /\ pending_transactions' = c.pending_transactions
        /\ views' = c.views
        /\ tasks' = (tasks (-) SetToBag({t})) (+) SetToBag({c.task} \ {Idle})

\* the events the handlers in flight are drawn from
Events ==
    {Event("setbucket", "k1", 5, 0, "u1"), Event("undo", NoBucket, 0, 0, "u1"),
     Event("clear", NoBucket, 0, 0, "u1"), Event("allocation", NoBucket, 1, 0, "u1"),
     Event("transaction", "k1", -1, 0, "u1"), Event("adjust", "k1", -1, 0, "u1")}
      \cup {Event("callback", "k1", 0, v, "u1") : v \in 1..MaxViews}

\* The handlers in flight together: each runs from await to await.
NextTasks ==
    \/ \E op \in Events : dispatch(op)
    \/ \E t \in BagToSet(tasks) : resume(t)
    \/ on_message("u1", <<Minus1>>)

SpecTasks == Init /\ [][NextTasks]_vars

-----------------------------------------------------------------------------
(* Properties.  A handler's effect is a function of the store it loads, so *)
(* a property of a handler is checked for every reachable store and for    *)
(* every input of the sets below, wider than the inputs the steps draw.    *)

AnyAmount == {-2, -1, 0, 1, 2}
AnyKey == Keys \cup {"k3"}
\* descriptions that end, whatever the case, in " CC"
MarkedDescriptions == {<<"m", " ", "C", "C">>, <<"m", " ", "c", "c">>, <<"m", " ", " ", "c", "C">>}
PlainDescriptions == {<<"m">>, <<"C", "C">>, NoDescription}

Allocated(d, emote) == GetBucket(d, emote).allocated

\* the store but for its buckets' allocated values
SameButAllocated(d1, d2) ==
    /\ d1.transactions = d2.transactions
    /\ d1.income = d2.income
    /\ d1.has_income = d2.has_income
    /\ Len(d1.buckets) = Len(d2.buckets)
    /\ \A i \in DOMAIN d1.buckets :
         [d1.buckets[i] EXCEPT !.allocated = 0] = [d2.buckets[i] EXCEPT !.allocated = 0]

\* a bucket name that is "creditcard" but for case
IsCardName(name) == name \in {CreditCard, creditcard}
CardKeys(d) == {d.buckets[i].emote : i \in {j \in DOMAIN d.buckets : IsCardName(d.buckets[j].name)}}

\* C1: AdjustAllocation(b, delta) on an existing bucket b is rejected iff
\* allocated(b) + delta < 0; rejected, it leaves the whole store as it was;
\* accepted, it changes only allocated(b), to allocated(b) + delta.
C1_AdjustRejectedIffNegative ==
    \A emote \in BucketKeys(data), delta \in AnyAmount :
        \A r \in {AdjustAllocation(data, emote, delta)} :
        LET rejected == r.reply = "negative_allocation"
        IN /\ rejected <=> Allocated(data, emote) + delta < 0
           /\ rejected => r.data = data
           /\ ~rejected =>
                /\ r.reply = "adjusted"
                /\ SameButAllocated(r.data, data)
                /\ \A e \in BucketKeys(data) :
                     Allocated(r.data, e) =
                       IF e = emote THEN Allocated(data, emote) + delta
                       ELSE Allocated(data, e)

\* a bucket holds 1: an adjustment by -1 is accepted and one by -2 is rejected
C1_Witness ==
    \E emote \in BucketKeys(data) :
        /\ Allocated(data, emote) = 1
        /\ AdjustAllocation(data, emote, -2).reply = "negative_allocation"
        /\ AdjustAllocation(data, emote, -1).reply = "adjusted"
        /\ Len(data.transactions) > 0

\* C2: with N >= 1 transactions in the log, Undo removes exactly entry N,
\* leaves entries 1..N-1 as they were and in their order, and leaves every
\* bucket and the income list as they were.
C2_UndoPopsLast ==
    data.transactions # <<>> =>
        \A r \in {Undo(data)} :
        LET N == Len(data.transactions)
        IN /\ r.reply = "undone"
           /\ Len(r.data.transactions) = N - 1
           /\ \A i \in 1..(N - 1) : r.data.transactions[i] = data.transactions[i]
           /\ r.data.buckets = data.buckets
           /\ r.data.income = data.income
           /\ r.data.has_income = data.has_income

\* the log holds two different entries, a bucket holds funds and income is recorded
C2_Witness ==
    /\ Len(data.transactions) = 2
    /\ data.transactions[1] # data.transactions[2]
    /\ \E emote \in BucketKeys(data) : Allocated(data, emote) > 0
    /\ data.income # <<>>

\* C3: a transaction with amount < 0 whose description is marked " CC", posted
\* on an existing bucket while some bucket is named "creditcard" (whatever the
\* case), appends exactly two entries: the original on the named bucket with
\* cc_purchase = TRUE, then the mirror on the credit-card bucket with the same
\* amount and cc_purchase = FALSE.
C3_DualPosting ==
    \A emote \in BucketKeys(data), amount \in {a \in AnyAmount : a < 0},
       text \in MarkedDescriptions :
        CardKeys(data) # {} =>
            \A r \in {Spend(data, emote, amount, text)} :
            LET n == Len(data.transactions)
                log == r.data.transactions
            IN /\ r.reply = "posted"
               /\ Len(log) = n + 2
               /\ SubSeq(log, 1, n) = data.transactions
               /\ log[n + 1].bucket = emote
               /\ log[n + 1].amount = amount
               /\ log[n + 1].cc_purchase = TRUE
               /\ log[n + 2].bucket \in CardKeys(data)
               /\ log[n + 2].amount = amount
               /\ log[n + 2].cc_purchase = FALSE
               /\ r.data.buckets = data.buckets

\* the log is a purchase on one bucket and its mirror on another, the card
C3_Witness ==
    /\ Len(data.transactions) = 2
    /\ data.transactions[1].cc_purchase
    /\ ~data.transactions[2].cc_purchase
    /\ data.transactions[2].bucket \in CardKeys(data)
    /\ data.transactions[1].bucket \notin CardKeys(data)
    /\ data.transactions[2].description =
         milk \o FromOpen \o GetBucket(data, data.transactions[1].bucket).name \o FromClose

\* C4: a transaction marked " CC" appends exactly one entry, on the named
\* bucket, and is accepted, when its amount is < 0 and no bucket is named
\* "creditcard", and also when its amount is >= 0.
C4_SinglePosting ==
    \A emote \in BucketKeys(data), amount \in AnyAmount, text \in MarkedDescriptions :
        (amount >= 0 \/ CardKeys(data) = {}) =>
            \A r \in {Spend(data, emote, amount, text)} :
            LET n == Len(data.transactions)
                log == r.data.transactions
            IN /\ r.reply = "posted"
               /\ Len(log) = n + 1
               /\ SubSeq(log, 1, n) = data.transactions
               /\ log[n + 1] = [bucket |-> emote, amount |-> amount,
                                description |-> milk, cc_purchase |-> TRUE]
               /\ r.data.buckets = data.buckets

\* no card bucket: the log is a marked withdrawal, unmirrored, then a marked deposit
C4_Witness ==
    /\ CardKeys(data) = {}
    /\ Len(data.transactions) = 2
    /\ data.transactions[1].cc_purchase /\ data.transactions[1].amount < 0
    /\ data.transactions[2].cc_purchase /\ data.transactions[2].amount > 0

\* C5: SetBucket(key, name, target) on an existing key keeps that bucket's
\* allocated value and its place, changes no other bucket, no transaction and
\* no income, and replayed with the same arguments changes nothing; on a new
\* key it adds the bucket with allocated = 0.
C5_SetBucketKeepsAllocated ==
    \A emote \in Keys, name \in Names, target \in Targets :
        \A r \in {SetBucket(data, emote, name, target).data} :
        LET fresh == [name |-> name, target |-> target, emote |-> emote,
                      allocated |-> 0]
        IN /\ r.transactions = data.transactions
           /\ r.income = data.income
           /\ r.has_income = data.has_income
           /\ IF emote \in BucketKeys(data)
              THEN /\ Len(r.buckets) = Len(data.buckets)
                   /\ \A i \in DOMAIN data.buckets :
                        r.buckets[i] =
                          IF data.buckets[i].emote = emote
                          THEN [fresh EXCEPT !.allocated = data.buckets[i].allocated]
                          ELSE data.buckets[i]
              ELSE r.buckets = Append(data.buckets, fresh)
           /\ SetBucket(r, emote, name, target).data = r

\* two buckets, both funded, under the two names
C5_Witness ==
    /\ Len(data.buckets) = 2
    /\ \A i \in DOMAIN data.buckets : data.buckets[i].allocated > 0
    /\ data.buckets[1].name # data.buckets[2].name

NonNegative(d) == \A i \in DOMAIN d.buckets : d.buckets[i].allocated >= 0

\* C6: in every reachable state every bucket's allocated value is >= 0, and
\* no handler (SetBucket, a message, a selection on a prompt, AdjustAllocation,
\* Undo, RecordIncome, Clear), whatever its input, takes such a state to one
\* where a bucket's allocated value is < 0.
C6_AllocatedNeverNegative ==
    /\ NonNegative(data)
    /\ NonNegative(Undo(data).data)
    /\ NonNegative(Clear.data)
    /\ \A emote \in AnyKey, amount \in AnyAmount :
         /\ NonNegative(AdjustAllocation(data, emote, amount).data)
         /\ NonNegative(ResolvePending(data, emote, amount).data)
    /\ \A amount \in AnyAmount :
         NonNegative(RecordIncome(data, amount, IncomeDescription, "u1").data)
    /\ \A emote \in AnyKey, name \in Names :
         NonNegative(SetBucket(data, emote, name, 5).data)
    /\ \A content \in AmountMessages \cup AllocationMessages \cup TransactionMessages :
         NonNegative(OnMessage(data, pending_transactions, views, "u2", content).data)

\* a bucket funded through a prompt is back at 0, where a further -1 is rejected
C6_Witness ==
    /\ \E v \in DOMAIN views : views[v].state = "closed" /\ views[v].amount > 0
    /\ \E emote \in BucketKeys(data) :
        /\ Allocated(data, emote) = 0
        /\ AdjustAllocation(data, emote, -1).reply = "negative_allocation"

\* the withdrawals from a bucket among the first n entries of the log
RECURSIVE SpentUpTo(_, _)
SpentUpTo(emote, n) ==
    IF n = 0 THEN 0
    ELSE SpentUpTo(emote, n - 1) +
         (IF data.transactions[n].bucket = emote /\ data.transactions[n].amount < 0
          THEN -data.transactions[n].amount ELSE 0)

\* C7: for every bucket b, available(b) = allocated(b) - spent(b), spent(b) the
\* sum of the absolute values of the negative amounts posted on b, not clamped
\* at zero; and neither an explicit transaction nor a prompt's spend changes
\* any bucket's allocated value.
C7_AvailableIsAllocatedMinusSpent ==
    /\ \A emote \in BucketKeys(data) :
         /\ get_spent(data, emote) = SpentUpTo(emote, Len(data.transactions))
         /\ get_available(data, emote) =
              Allocated(data, emote) - SpentUpTo(emote, Len(data.transactions))
    /\ \A emote \in AnyKey, amount \in AnyAmount :
         /\ \A text \in {milk, milk \o CCSuffix} :
              Spend(data, emote, amount, text).data.buckets = data.buckets
         /\ amount <= 0 =>
              ResolvePending(data, emote, amount).data.buckets = data.buckets

\* a bucket is overspent through a prompt: its available is below zero
C7_Witness ==
    \E emote \in BucketKeys(data) :
        /\ get_available(data, emote) < 0
        /\ \E i \in DOMAIN data.transactions :
             /\ data.transactions[i].bucket = emote
             /\ data.transactions[i].description = QuickTransaction

\* C8: a spend that appends one entry, followed by Undo, gives back the store
\* as it was before the spend: the log, spent(b) and available(b).
C8_SpendUndoRoundTrip ==
    \A emote \in BucketKeys(data), amount \in {a \in AnyAmount : a < 0},
       text \in {milk, NoDescription, milk \o CCSuffix} :
        \A spent \in {Spend(data, emote, amount, text).data} :
            Len(spent.transactions) = Len(data.transactions) + 1 =>
                \A undone \in {Undo(spent)}, before \in {get_spent(data, emote)} :
                    /\ get_spent(spent, emote) = before - amount
                    /\ get_available(spent, emote) = get_available(data, emote) + amount
                    /\ undone.reply = "undone"
                    /\ undone.data = data
                    /\ get_spent(undone.data, emote) = before
                    /\ get_available(undone.data, emote) = get_available(data, emote)

\* one spend of 1 is in the log of a bucket that holds 1: available is 0, and
\* 1 again with an empty log once undone
C8_Witness ==
    /\ Len(data.transactions) = 1
    /\ \E emote \in BucketKeys(data) :
        /\ data.transactions[1] = [bucket |-> emote, amount |-> -1,
                                   description |-> milk, cc_purchase |-> FALSE]
        /\ Allocated(data, emote) = 1
        /\ get_available(data, emote) = 0
        /\ get_available(Undo(data).data, emote) = 1
        /\ Undo(data).data.transactions = <<>>

\* the prompts a press by their reporter would post from
Postable(v) ==
    \E emote \in Keys :
        /\ Shown(views, v, emote)
        /\ Callback(data, views, v, emote, views[v].user_id).reply
             \in {"quick_allocated", "quick_spent"}

\* C9: a second bare amount of a reporter cancels the first: the only prompt
\* of a reporter whose amount a selection can still post is the one the
\* reporter's pending entry records.
C9_OverwriteCancels ==
    \A v \in DOMAIN views :
        Postable(v) =>
            pending_transactions[views[v].user_id] =
                [amount |-> views[v].amount, message |-> views[v].original_message]

\* C10: once the timeout of a pending selection has passed, the reporter's
\* pending entry for it is discarded.
C10_ExpiryDiscardsPending ==
    \A v \in DOMAIN views :
        views[v].state = "expired" =>
            pending_transactions[views[v].user_id].message # views[v].original_message

\* the replies of a callback that has posted
Posted == {"quick_allocated", "quick_spent"}

\* C11: a selection on a prompt by anybody but the reporter who created it is
\* rejected: it changes neither the store nor the prompt (so that no cleanup
\* of the pending-transaction map follows it), and the reporter's own
\* selection does after it what it would have done before it.
C11_OnlyReporterResolves ==
    \A v \in DOMAIN views, emote \in Keys, user \in Users :
        (Shown(views, v, emote) /\ user # views[v].user_id) =>
            \A r \in {Callback(data, views, v, emote, user)} :
                /\ r.reply = "not_yours"
                /\ r.data = data
                /\ r.views = views
                /\ Callback(r.data, r.views, v, emote, views[v].user_id) =
                     Callback(data, views, v, emote, views[v].user_id)

\* a prompt of u1 for -1 is on screen, with the reporter's pending entry: u2's
\* press is rejected where u1's would post
C11_Witness ==
    \E v \in DOMAIN views :
        /\ views[v].user_id = "u1"
        /\ views[v].amount = -1
        /\ pending_transactions["u1"].message = v
        /\ Shown(views, v, "k1")
        /\ Callback(data, views, v, "k1", "u2").reply = "not_yours"
        /\ Callback(data, views, v, "k1", "u1").reply = "quick_spent"

\* bare amounts, as typed
BareAmounts == {<<"-", "2">>, <<"-", "1">>, <<"0">>, <<"1">>, <<"+", "1">>, <<"2">>}

\* r is d after Allocate: allocated(emote) grown by amount, nothing appended
IsAllocate(d, r, emote, amount) ==
    /\ r.transactions = d.transactions
    /\ SameButAllocated(r, d)
    /\ \A e \in BucketKeys(d) :
         Allocated(r, e) = IF e = emote THEN Allocated(d, e) + amount ELSE Allocated(d, e)

\* r is d after Spend: one placeholder entry appended, the buckets as they were
IsQuickSpend(d, r, emote, amount) ==
    /\ r.buckets = d.buckets
    /\ r.transactions = Append(d.transactions,
                               [bucket |-> emote, amount |-> amount,
                                description |-> QuickTransaction,
                                cc_purchase |-> FALSE])

\* C12: resolving a pending amount on a bucket performs Allocate exactly when
\* the amount is positive, and Spend (one entry with the amount, the
\* placeholder description and cc_purchase = FALSE; allocated unchanged)
\* exactly when the amount is negative.
C12_AllocateOrSpendBySign ==
    \A word \in BareAmounts, emote \in BucketKeys(data) :
        \A m \in {ParseMessage(<<word>>)} :
            m.kind = "amount" =>
                \A r \in {ResolvePending(data, emote, m.amount).data} :
                    /\ IsAllocate(data, r, emote, m.amount) <=> m.amount > 0
                    /\ IsQuickSpend(data, r, emote, m.amount) <=> m.amount < 0

\* C13: after an attempt of the reporter to resolve a prompt, whether it posts
\* or fails, the reporter has no entry left in the pending-transaction map.
C13_PendingClearedAfterAttempt ==
    \A v \in DOMAIN views, emote \in Keys :
        Shown(views, v, emote) =>
            CallbackToEnd(data, pending_transactions, views, v, emote,
                          views[v].user_id).pending_transactions[views[v].user_id]
              = NoPending

\* category names, as typed
CategoryNames ==
    {gas, card, milk, creditcard, <<"C", "A", "R", "D">>, <<"a">>, <<"t", "c">>,
     <<"G", "a", "s">>, <<"g", "a", "s", "s">>}

\* the buckets whose name is text, and those whose name has text in it, both
\* but for case
ExactHits(d, text) == {i \in DOMAIN d.buckets : upper(d.buckets[i].name) = upper(text)}
PartialHits(d, text) ==
    {i \in DOMAIN d.buckets :
        \E k \in 1..(Len(d.buckets[i].name) - Len(text) + 1) :
            SubSeq(upper(d.buckets[i].name), k, k + Len(text) - 1) = upper(text)}
First(hits) == CHOOSE i \in hits : \A j \in hits : i <= j

\* C15: resolving a category name gives the first bucket, in insertion order,
\* whose name equals it but for case, even when an earlier bucket has it as a
\* part of its name; failing that, the first bucket whose lower-cased name
\* contains the lower-cased text; failing that, not-found.
C15_ExactThenPartial ==
    \A text \in CategoryNames :
        \A exact \in {ExactHits(data, text)}, partial \in {PartialHits(data, text)} :
            find_bucket_by_name(data, text) =
                IF exact # {} THEN data.buckets[First(exact)].emote
                ELSE IF partial # {} THEN data.buckets[First(partial)].emote
                ELSE NoBucket

\* CreditCard was set up before Card: "card" is Card, "a" and "tc" are
\* CreditCard, "milk" is nothing; and an allocation to "card" went to Card
C15_Witness ==
    /\ Len(data.buckets) = 2
    /\ data.buckets[1].name = CreditCard /\ data.buckets[2].name = Card
    /\ find_bucket_by_name(data, card) = data.buckets[2].emote
    /\ find_bucket_by_name(data, <<"a">>) = data.buckets[1].emote
    /\ find_bucket_by_name(data, <<"t", "c">>) = data.buckets[1].emote
    /\ find_bucket_by_name(data, milk) = NoBucket
    /\ data.buckets[1].allocated = 0 /\ data.buckets[2].allocated = 1

\* C16: Undo on a store with an empty transaction log reports that there is
\* nothing to undo and leaves the store as it is; and Undo, whatever the log,
\* leaves every bucket's allocated value as it is.
C16_UndoEmptyLog ==
    /\ data.transactions = <<>> =>
         Undo(data) = [data |-> data, reply |-> "nothing_to_undo"]
    /\ \A i \in DOMAIN data.buckets :
         Undo(data).data.buckets[i].allocated = data.buckets[i].allocated

\* allocations were made and nothing is in the log
C16_Witness ==
    /\ data.transactions = <<>>
    /\ Len(data.buckets) = 2
    /\ \A i \in DOMAIN data.buckets : data.buckets[i].allocated = 1
    /\ data.income # <<>>
    /\ Undo(data).reply = "nothing_to_undo"

\* C17: Clear resets the whole store, income included: after it the buckets
\* and the log are empty and the total income, and so the unallocated funds,
\* are 0 whatever income was recorded before; income recorded after it counts
\* from nothing.
C17_ClearWipesIncome ==
    /\ Clear.reply = "cleared"
    /\ Clear.data.buckets = <<>>
    /\ Clear.data.transactions = <<>>
    /\ get_total_income(Clear.data) = 0
    /\ get_unallocated(Clear.data) = 0
    /\ \A amount \in AnyAmount :
         get_total_income(RecordIncome(Clear.data, amount, IncomeDescription, "u1").data)
           = amount

\* income is recorded, a bucket is funded and the log is not empty: Clear
\* has something of each kind to wipe
C17_Witness ==
    /\ get_total_income(data) = 1
    /\ get_total_allocated(data) = 2
    /\ get_unallocated(data) = -1
    /\ data.transactions # <<>>
    /\ get_total_income(Clear.data) = 0

\* first tokens of a message, as typed
Tokens == {<<"k1">>, <<"k2">>, <<"k3">>, Gas, gas, Card, <<"k1", "k2">>}

\* a message left the store, the pending map and the prompts as they were
Refused(r, reply) ==
    r = [data |-> data, pending_transactions |-> pending_transactions,
         views |-> views, reply |-> reply]

\* C18: a transaction message whose first token is not exactly the key of an
\* existing bucket is refused as an unknown bucket and leaves the store as it
\* is, also when the token is a bucket's name; an allocation message whose
\* category name resolves to no bucket is refused and leaves the store as it is.
C18_UnknownBucketRefused ==
    /\ \A token \in Tokens, amount \in {Minus1, One},
          description \in {<<>>, <<milk, <<"C", "C">> >>} :
         token \notin {<<k>> : k \in BucketKeys(data)} =>
             Refused(OnMessage(data, pending_transactions, views, "u1",
                               <<token, amount>> \o description),
                     "unknown_bucket")
    /\ \A text \in CategoryNames :
         (PartialHits(data, text) = {}) =>
             Refused(OnMessage(data, pending_transactions, views, "u1", <<Plus1, text>>),
                     "not_found")

\* Gas is the only bucket, funded and spent from: a transaction on "Gas", on
\* k2 or on k3 is refused, and so is an allocation to "card"
C18_Witness ==
    /\ Len(data.buckets) = 1
    /\ data.buckets[1].name = Gas /\ data.buckets[1].allocated = 1
    /\ data.transactions # <<>>
    /\ OnMessage(data, pending_transactions, views, "u1", <<Gas, Minus1, milk>>).reply
         = "unknown_bucket"
    /\ OnMessage(data, pending_transactions, views, "u1", <<Plus1, card>>).reply
         = "not_found"

\* C19: a bare amount received while the store has no bucket is refused: no
\* pending entry is created for the reporter, an existing one is left as it
\* is, and the store is unchanged; with a bucket, the reporter's pending entry
\* becomes the new amount and nothing else changes.
C19_BareAmountNeedsBuckets ==
    \A word \in BareAmounts, author \in Users :
        \A m \in {ParseMessage(<<word>>)},
           r \in {OnMessage(data, pending_transactions, views, author, <<word>>)} :
            /\ m.kind = "amount"
            /\ r.data = data
            /\ IF data.buckets = <<>>
               THEN Refused(r, "no_buckets")
               ELSE /\ r.reply = "select_category"
                    /\ r.pending_transactions[author].amount = m.amount
                    /\ r.pending_transactions[author].message = Len(r.views)
                    /\ \A u \in Users \ {author} :
                         r.pending_transactions[u] = pending_transactions[u]
                    /\ Len(r.views) = Len(views) + 1
                    /\ r.views[Len(r.views)].user_id = author
                    /\ r.views[Len(r.views)].amount = m.amount

\* the buckets were cleared while u1's prompt was pending: u1's next bare
\* amount is refused and the old pending entry stays
C19_Witness ==
    /\ data.buckets = <<>>
    /\ pending_transactions["u1"] # NoPending
    /\ OnMessage(data, pending_transactions, views, "u1", <<Minus1>>).reply = "no_buckets"
    /\ OnMessage(data, pending_transactions, views, "u1", <<Minus1>>).pending_transactions
         = pending_transactions

\* the income list and the flag of its presence
Income(d) == <<d.income, d.has_income>>

\* C20: RecordIncome appends exactly one income record and changes no bucket
\* and no transaction, so that the total income and the unallocated funds
\* both grow by the amount; and no other handler but Clear changes the income
\* list.
C20_RecordIncomeFrame ==
    /\ \A amount \in AnyAmount, person \in Users :
         \A r \in {RecordIncome(data, amount, IncomeDescription, person).data} :
            /\ r.income = Append(data.income,
                                 [amount |-> amount, description |-> IncomeDescription,
                                  person |-> person, type |-> "income"])
            /\ r.buckets = data.buckets
            /\ r.transactions = data.transactions
            /\ get_total_income(r) = get_total_income(data) + amount
            /\ get_unallocated(r) = get_unallocated(data) + amount
    /\ Income(Undo(data).data) = Income(data)
    /\ \A emote \in AnyKey, amount \in AnyAmount :
         /\ Income(AdjustAllocation(data, emote, amount).data) = Income(data)
         /\ Income(ResolvePending(data, emote, amount).data) = Income(data)
    /\ \A emote \in AnyKey, name \in Names :
         Income(SetBucket(data, emote, name, 5).data) = Income(data)
    /\ \A content \in AllocationMessages \cup TransactionMessages :
         Income(OnMessage(data, pending_transactions, views, "u1", content).data)
           = Income(data)

\* income is recorded next to a funded bucket and a posted transaction
C20_Witness ==
    /\ Len(data.income) = 1
    /\ data.income[1].person = "u1"
    /\ get_total_income(data) = 1
    /\ get_total_allocated(data) = 1
    /\ get_unallocated(data) = 0
    /\ Len(data.transactions) = 1

\* a task stands between its load and its save
Loaded(t) ==
    /\ t # Idle
    /\ \E j \in 1..(t.pc - 1) : Program(t.op)[j] = "load"
    /\ \E j \in t.pc..Len(Program(t.op)) : Program(t.op)[j] = "save"

\* a task stands before its save and after it once resumed
PassesSave(t, after) ==
    /\ t # Idle
    /\ \E j \in t.pc..Len(Program(t.op)) :
         /\ Program(t.op)[j] = "save"
         /\ after = Idle \/ after.pc > j

\* a step in which the store is as it was, or is what the handler that saved
\* in the step makes of the store as it was before the step
SerialStep ==
    LET resumed == {t \in BagToSet(tasks) : CopiesIn(t, tasks') < CopiesIn(t, tasks)}
        standing == {t \in BagToSet(tasks') : CopiesIn(t, tasks') > CopiesIn(t, tasks)}
    IN IF resumed = {} THEN data' = data
       ELSE \A t \in resumed :
               \A r \in {Run(t.op, data, views)},
                  after \in (IF standing = {} THEN {Idle} ELSE standing) :
                   data' = IF PassesSave(t, after) /\ Saves(r.reply) THEN r.data ELSE data

\* C14: under every interleaving of the handlers at their awaits, no handler
\* stands between its load and its save while another runs, and every save
\* writes what its handler makes of the store as it is at the save: no
\* committed operation is lost, and the store is the result of the committed
\* operations applied one after the other in the order of their saves.
C14_SingleWriter ==
    /\ [](\A t \in BagToSet(tasks) : ~Loaded(t))
    /\ [][SerialStep]_vars

\* a callback has saved and stands at its await while an adjustment arrived
C14_Witness ==
    \E t, u \in BagToSet(tasks) :
        /\ t.op.kind = "callback" /\ t.pc = 5
        /\ u.op.kind = "adjust" /\ u.pc = 1
        /\ data.transactions # <<>>

\* a prompt a selection of its reporter has posted from: the callback awaits
\* its response, or has ended
HasPosted(v) == views[v].awaiting > 0 \/ views[v].state = "closed"

\* C21: a pending quick amount is posted at most once: once a selection on a
\* prompt has posted, a further selection of the reporter on the same prompt,
\* also one that arrives while the first awaits its response, changes neither
\* an allocation nor the transaction log.
C21_PostedAtMostOnce ==
    \A v \in DOMAIN views, emote \in Keys :
        (HasPosted(v) /\ Shown(views, v, emote)) =>
            Callback(data, views, v, emote, views[v].user_id).data = data

\* C22: a selection of the reporter that names a bucket key the store no
\* longer has ends in a not-found outcome: the store is left as it was, the
\* callback does not end in an unhandled fault, and the reporter's pending
\* entry is cleared.
C22_MissingBucketRecovers ==
    \A v \in DOMAIN views, emote \in Keys :
        (Shown(views, v, emote) /\ ~HasBucket(data, emote)) =>
            \A r \in {CallbackToEnd(data, pending_transactions, views, v, emote,
                                    views[v].user_id)} :
                /\ r.data = data
                /\ r.reply # "fault"
                /\ r.pending_transactions[views[v].user_id] = NoPending

\* every entry of the log names a bucket the store has
Integrity(d) == \A i \in DOMAIN d.transactions : HasBucket(d, d.transactions[i].bucket)

\* C23: referential integrity: in every reachable state every transaction of
\* the log names a bucket key that is present in buckets, and every handler,
\* applied to a reachable store, gives a store of which this is true: a
\* posting goes to an existing key only, and Clear, the only handler that
\* removes buckets, empties the log too.
C23_ReferentialIntegrity ==
    /\ Integrity(data)
    /\ \A emote \in AnyKey, amount \in {-1, 0, 1} :
         /\ Integrity(ResolvePending(data, emote, amount).data)
         /\ Integrity(AdjustAllocation(data, emote, amount).data)
         /\ \A text \in {milk, milk \o CCSuffix} :
              Integrity(Spend(data, emote, amount, text).data)
    /\ \A emote \in AnyKey : Integrity(SetBucket(data, emote, Gas, 5).data)
    /\ Integrity(Undo(data).data)
    /\ Integrity(Allocate(data, 1, gas).data)
    /\ Integrity(RecordIncome(data, 1, IncomeDescription, "u1").data)
    /\ Clear.data.buckets = <<>> /\ Clear.data.transactions = <<>>

\* the log holds a purchase and its mirror on two buckets, and a posting on a
\* key no bucket has is turned away by the message handler and by the callback
C23_Witness ==
    /\ Len(data.transactions) = 2
    /\ data.transactions[1].bucket # data.transactions[2].bucket
    /\ Spend(data, "k3", -1, milk).reply = "unknown_bucket"
    /\ ResolvePending(data, "k3", -1).reply = "fault"

\* the entries a handler's result has appended to the log of d
Appended(d, r) == SubSeq(r.data.transactions, Len(d.transactions) + 1,
                         Len(r.data.transactions))

\* C24: one spend message appends at most one transaction on any one bucket,
\* also when a CC-marked spend is posted on the credit-card bucket itself: the
\* signed balance of the credit-card bucket changes by the spend amount or
\* not at all.
C24_OnePostingPerBucket ==
    \A emote \in BucketKeys(data), amount \in {-1, 1},
       text \in {milk, milk \o CCSuffix} :
        \A r \in {Spend(data, emote, amount, text)} :
            /\ \A i, j \in DOMAIN Appended(data, r) :
                 i # j => Appended(data, r)[i].bucket # Appended(data, r)[j].bucket
            /\ \A cc \in CardKeys(data) :
                 balance(r.data, cc) - balance(data, cc) \in {0, amount}

\* the reporter's pending entry was created by a bare amount later than the
\* one prompt v belongs to
LaterPending(v) ==
    pending_transactions[views[v].user_id].message > views[v].original_message

\* C25: resolving a selection on a prompt removes only the pending entry that
\* the prompt's own bare amount created: the entry of a later bare amount of
\* the same reporter stays, when the press comes after the later amount, and
\* when the later amount came while the callback was suspended between its
\* save and its cleanup.
C25_CleanupKeepsLaterPending ==
    \A v \in DOMAIN views :
        LaterPending(v) =>
            /\ views[v].awaiting > 0 =>
                 Cleanup(pending_transactions, views, v)[views[v].user_id]
                   = pending_transactions[views[v].user_id]
            /\ \A emote \in Keys :
                 Shown(views, v, emote) =>
                     CallbackToEnd(data, pending_transactions, views, v, emote,
                                   views[v].user_id).pending_transactions[views[v].user_id]
                       = pending_transactions[views[v].user_id]

\* C26: after a CC spend that was posted twice, on its bucket and on the
\* credit card, one Undo removes only the mirror: the originating entry, with
\* cc_purchase = TRUE, stays in the log and the originating bucket's spent is
\* what it was before that Undo; a second Undo gives back the log from before
\* the spend.
C26_UndoAfterDualPosting ==
    \A emote \in BucketKeys(data), amount \in {-2, -1} :
        \A spent \in {Spend(data, emote, amount, milk \o CCSuffix).data} :
            Len(spent.transactions) = Len(data.transactions) + 2 =>
                \A once \in {Undo(spent).data} :
                    /\ once.transactions =
                         Append(data.transactions,
                                [bucket |-> emote, amount |-> amount,
                                 description |-> milk, cc_purchase |-> TRUE])
                    /\ get_spent(once, emote) = get_spent(spent, emote)
                    /\ Undo(once).data = data

====
